---- MODULE Spec2Model ----
(***************************************************************************)
(* StockQuotes.MCP: the upstream call serializer (YahooFinanceClient) and  *)
(* the quote / search / history service (StockQuotesService) with its      *)
(* response cache.                                                         *)
(*                                                                         *)
(* Strings are sequences of UTF-16 code units, so that join, sort and the  *)
(* template literals that build cache keys are computed, not assumed.      *)
(***************************************************************************)
EXTENDS Integers, Sequences, FiniteSets, TLC

VARIABLES
    tasks,      \* one record per enqueue() invocation, in invocation order
    queue,      \* YahooFinanceClient.queue: id of the promise that is the tail
    resolved,   \* ids of the queue promises that are resolved (0: Promise.resolve())
    upLog,      \* what the upstream library did: one entry per settled upstream call
    reqs,       \* one record per StockQuotesService operation invoked
    cache,      \* NodeCache data of the service: key -> [v, t]
    now,        \* Date.now(), in seconds
    today,      \* startOfToday(), a calendar date
    multi,      \* the getMultipleQuotes invocation: its loop position and its results map
    http        \* HttpTransportStrategy: the transport this.server is connected to, the POSTs

vars == <<tasks, queue, resolved, upLog, reqs, cache, now, today, multi, http>>

(***************************************************************************)
(* Bounds of the model.                                                    *)
(***************************************************************************)
MaxTasks == 3
MaxReqs == 2
MaxHistReqs == 1
MaxTickers == 2
MaxFields == 3
MaxRecords == 2

(***************************************************************************)
(* Strings.                                                                *)
(***************************************************************************)
S_A == <<65>>
S_B == <<66>>
S_comma == <<44>>
S_commaSpace == <<44, 32>>
S_all == <<97, 108, 108>>
S_us == <<95>>
S_quote_ == <<113, 117, 111, 116, 101, 95>>
S_quotes_ == <<113, 117, 111, 116, 101, 115, 95>>
S_search_ == <<115, 101, 97, 114, 99, 104, 95>>
S_price == <<112>>
S_vol == <<118>>
S_query == <<122>>
S_name == <<110, 97, 109, 101>>
S_shortName == <<115, 104, 111, 114, 116, 78, 97, 109, 101>>
S_longName == <<108, 111, 110, 103, 78, 97, 109, 101>>
S_unknown == <<117, 110, 107, 110, 111, 119, 110>>
S_empty == <<>>
S_a == <<97>>
S_space_a == <<32, 97>>
S_A_space == <<65, 32>>
S_X == <<88>>
S_ShortOne == <<115>>
S_LongOne == <<108>>

\* a < b in the order of Array.prototype.sort() without a comparator:
\* code unit by code unit, a proper prefix first
RECURSIVE StrLess(_, _)
StrLess(a, b) ==
    IF b = <<>> THEN FALSE
    ELSE IF a = <<>> THEN TRUE
    ELSE IF Head(a) # Head(b) THEN Head(a) < Head(b)
    ELSE StrLess(Tail(a), Tail(b))

RECURSIVE Insert(_, _)
Insert(x, s) ==
    IF s = <<>> THEN <<x>>
    ELSE IF StrLess(x, Head(s)) THEN <<x>> \o s
    ELSE <<Head(s)>> \o Insert(x, Tail(s))

RECURSIVE Sort(_)
Sort(s) == IF s = <<>> THEN <<>> ELSE Insert(Head(s), Sort(Tail(s)))

RECURSIVE Join(_, _)
Join(s, sep) ==
    IF s = <<>> THEN <<>>
    ELSE IF Len(s) = 1 THEN s[1]
    ELSE s[1] \o sep \o Join(Tail(s), sep)

(***************************************************************************)
(* The call serializer: YahooFinanceClient.enqueue.                        *)
(***************************************************************************)
Insts == {1, 2}
Kinds == {"quote", "search", "chart"}

\* JavaScript values that reach the service from the upstream library
Undefined == [tag |-> "undefined"]
Null == [tag |-> "null"]
Obj(r) == [tag |-> "object", v |-> r]
Arr(s) == [tag |-> "array", v |-> s]
IsArray(x) == x.tag = "array"
\* !x for the values above: objects and arrays (the empty one too) are truthy
Falsy(x) == x.tag \in {"undefined", "null"}
\* no record in x: undefined, null or the empty array
EmptyResult(x) == Falsy(x) \/ (IsArray(x) /\ Len(x.v) = 0)

\* an optional argument or an optional result: <<>> is undefined, <<x>> is x
None == <<>>
Some(x) == <<x>>

\* an upstream record lists under `nulls` the attributes whose value is null;
\* Has(r, k): r[k] is a value, neither undefined nor null
Has(r, k) == k \in DOMAIN r
IsNull(r, k) == Has(r, "nulls") /\ k \in r.nulls
MapSeq(s, F(_)) == [i \in 1..Len(s) |-> F(s[i])]
\* the arrays of at most n elements of S
SeqsUpTo(S, n) == UNION {[1..k -> S] : k \in 0..n}

\* what the upstream library can answer to one call
UpstreamBodies(kind) ==
    CASE kind = "quote"  -> {"records", "undefined"}
      [] kind = "search" -> {"matches"}
      [] kind = "chart"  -> {"bars", "undefined"}

\* error messages, as the sequence of their fragments
UpstreamErrors == {<<"rate limit">>, <<"Network error">>}

UpstreamOutcomes(kind) ==
    [ok : {TRUE}, body : UpstreamBodies(kind)] \cup [ok : {FALSE}, body : UpstreamErrors]

YahooQuoteOf(sym, ser) == [symbol |-> sym, regularMarketPrice |-> ser]

\* the value or the error the upstream library settles the call with; ser
\* numbers the answers, so that no two answers are the same object
UpstreamAnswer(kind, arg, o, ser) ==
    IF ~o.ok THEN [cls |-> "Error", msg |-> o.body, about |-> <<>>]
    ELSE IF o.body = "undefined" THEN Undefined
    ELSE CASE kind = "quote" ->
                IF arg.list THEN Arr(MapSeq(arg.syms, LAMBDA y : YahooQuoteOf(y, ser)))
                ELSE Obj(YahooQuoteOf(arg.syms[1], ser))
           [] kind = "search" ->
                Obj([quotes |-> <<[symbol |-> S_A, shortname |-> arg.syms[1], exchange |-> S_B],
                                  [symbol |-> S_B, exchange |-> S_B]>>])
           [] kind = "chart" ->
                Obj([quotes |-> <<[date |-> arg.opt[1].period1, close |-> 100004 + ser,
                                   high |-> 105000, low |-> 95000, volume |-> 1000]>>])

NoOutcome == [ok |-> FALSE, body |-> Undefined, ser |-> 0]

\* enqueue that leaves YahooFinanceClient.queue as it found it
EnqueueTaskTailKept(i, kind, arg) ==
    /\ tasks' = Append(tasks, [inst |-> i, kind |-> kind, arg |-> arg, prev |-> queue,
                               st |-> "waiting", out |-> NoOutcome])
    /\ UNCHANGED <<queue, resolved>>

\* enqueue that awaits the first tail, Promise.resolve(), whatever the tail is
EnqueueTaskOnFirstTail(i, kind, arg) ==
    /\ tasks' = Append(tasks, [inst |-> i, kind |-> kind, arg |-> arg, prev |-> 0,
                               st |-> "waiting", out |-> NoOutcome])
    /\ queue' = Len(tasks) + 1
    /\ UNCHANGED resolved

\* enqueue, up to its first suspension: capture the tail, install a new one
EnqueueTask(i, kind, arg) ==
    /\ tasks' = Append(tasks, [inst |-> i, kind |-> kind, arg |-> arg, prev |-> queue,
                               st |-> "waiting", out |-> NoOutcome])
    /\ queue' = Len(tasks) + 1
    /\ UNCHANGED resolved

\* a task that does not await the previous tail
MayStartUnchained(t) == tasks[t].st = "waiting"

\* a task that awaits the tail it installed itself
MayStartOnOwnTail(t) == tasks[t].st = "waiting" /\ t \in resolved

\* `await previous` is over when the promise captured as previous is resolved
MayStart(t) == tasks[t].st = "waiting" /\ tasks[t].prev \in resolved

\* `return await task()`: the caller's promise settles with the task's outcome
EnqueueReturn(o) == o

\* resolveNext() reached only when the task did not throw
ReleasedOnSuccess(t, o) == IF o.ok THEN {t} ELSE {}

\* `finally { resolveNext() }`: runs on success and on failure
ReleasedBy(t, o) == {t}

\* the arguments of a call made on the client directly
ClientArg(kind) ==
    [syms |-> <<S_A>>, list |-> FALSE,
     opt |-> IF kind = "chart" THEN Some([period1 |-> <<2023, 1, 1>>, period2 |-> <<2023, 1, 4>>])
             ELSE None]

\* a caller outside the service invokes client.quote / search / chart
ClientCall(i, kind) ==
    /\ Len(tasks) < MaxTasks
    /\ EnqueueTask(i, kind, ClientArg(kind))
    /\ UNCHANGED <<upLog, reqs, cache, now, today, multi, http>>

\* the task's turn comes: task() is invoked and the upstream call begins
Start(t) ==
    /\ MayStart(t)
    /\ tasks' = [tasks EXCEPT ![t].st = "running"]
    /\ UNCHANGED <<queue, resolved, upLog, reqs, cache, now, today, multi, http>>

\* the upstream call settles, with the value body or (ok false) with the error
\* body; enqueue releases the queue and settles its caller's promise
Settle(t, ok, body) ==
    /\ tasks[t].st = "running"
    /\ LET made == [ok |-> ok, ser |-> Len(upLog) + 1, body |-> body]
       IN /\ upLog' = Append(upLog, [task |-> t, out |-> made])
          /\ tasks' = [tasks EXCEPT ![t].st = "settled", ![t].out = EnqueueReturn(made)]
          /\ resolved' = resolved \cup ReleasedBy(t, made)
    /\ UNCHANGED <<queue, reqs, cache, now, today, multi, http>>

Finish(t, o) ==
    Settle(t, o.ok, UpstreamAnswer(tasks[t].kind, tasks[t].arg, o, Len(upLog) + 1))

(***************************************************************************)
(* The response cache: NodeCache({ stdTTL: 300, checkperiod: 60 }).        *)
(***************************************************************************)
stdTTL == 300
searchTTL == 1800

\* an entry that never expires
CacheLiveForever(c, k, n) == k \in DOMAIN c

\* NodeCache._check: an entry is expired when its time t is before Date.now()
CacheLive(c, k, n) == k \in DOMAIN c /\ c[k].t >= n

\* a get that finds nothing
CacheGetMiss(c, k, n) == None

\* NodeCache.get: the value of a live entry, undefined otherwise
CacheGet(c, k, n) == IF CacheLive(c, k, n) THEN Some(c[k].v) ELSE None

\* NodeCache.get deletes the entry it finds expired
CacheAfterGet(c, k, n) ==
    IF k \in DOMAIN c /\ ~CacheLive(c, k, n) THEN [x \in DOMAIN c \ {k} |-> c[x]] ELSE c

\* NodeCache.set(key, value, ttl)
CacheSet(c, k, v, ttl, n) == (k :> [v |-> v, t |-> n + ttl, at |-> n]) @@ c

\* NodeCache's periodic check deletes the expired entries
CacheSwept(c, n) == [x \in {k \in DOMAIN c : CacheLive(c, k, n)} |-> c[x]]

(***************************************************************************)
(* StockQuotesService.                                                     *)
(***************************************************************************)
Includes(s, x) == \E i \in 1..Len(s) : s[i] = x

\* fields?.join(',') ?? 'all'
FieldsPart(fields) == IF fields = None THEN S_all ELSE Join(fields[1], S_comma)

\* `quote_${ticker}_${fields?.join(',') ?? 'all'}`
QuoteKey(input) == S_quote_ \o input.ticker \o S_us \o FieldsPart(input.fields)

\* the key built from the tickers in the order given
QuotesKeyUnsorted(input) ==
    S_quotes_ \o Join(input.tickers, S_comma) \o S_us \o FieldsPart(input.fields)

\* `quotes_${tickers.sort().join(',')}_${fields?.join(',') ?? 'all'}`
QuotesKey(input) ==
    S_quotes_ \o Join(Sort(input.tickers), S_comma) \o S_us \o FieldsPart(input.fields)

\* the fields as given, nothing removed and nothing added
prepareFieldsAsGiven(fields) == fields

\* `search_${query}`
SearchKey(query) == S_search_ \o query

prepareFields(fields) ==
    IF fields = None THEN None
    ELSE LET valid == SelectSeq(fields[1], LAMBDA f : Len(f) > 0)
             noName == SelectSeq(valid, LAMBDA f : f # S_name)
             withShort == IF Includes(noName, S_shortName) THEN noName
                          ELSE Append(noName, S_shortName)
             withLong == IF Includes(withShort, S_longName) THEN withShort
                         ELSE Append(withShort, S_longName)
             out == IF Includes(valid, S_name) THEN withLong ELSE valid
         IN IF Len(out) > 0 THEN Some(out) ELSE None

\* validFields ? { fields: validFields } : undefined
QuoteOptions(fields) == prepareFields(fields)

\* the attributes copied one to one from the upstream record
CopiedKeys == {"exchange", "currency", "regularMarketPrice", "regularMarketVolume",
               "marketCap", "marketState", "quoteType"}

\* a response that carries the requested ticker and nothing of the record
mapToTickerOnly(quote, ticker) == [symbol |-> ticker]

\* the response built from the upstream record, after the deletion of the
\* keys whose value === undefined; the keys left with the value null are
\* listed under `nulls`
mapToStockQuoteResponse(quote, ticker) ==
    LET keys == {"symbol"}
                \cup (IF Has(quote, "shortName") \/ Has(quote, "longName") THEN {"name"} ELSE {})
                \cup {k \in CopiedKeys : Has(quote, k)}
        \* quote.shortName ?? quote.longName is null when neither is a value
        \* and longName is null
        nulls == {k \in CopiedKeys : IsNull(quote, k)}
                 \cup (IF ~Has(quote, "shortName") /\ ~Has(quote, "longName")
                          /\ IsNull(quote, "longName") THEN {"name"} ELSE {})
        values == [k \in keys |->
                    CASE k = "symbol" -> IF Has(quote, "symbol") THEN quote.symbol ELSE ticker
                      [] k = "name" -> IF Has(quote, "shortName") THEN quote.shortName
                                       ELSE quote.longName
                      [] OTHER -> quote[k]]
    IN IF nulls = {} THEN values ELSE values @@ [nulls |-> nulls]

\* an error: its class, the fragments of its message, and the identifier the
\* message names
Err(cls, msg, about) == [cls |-> cls, msg |-> msg, about |-> about]
Thrown(cls, msg, about) == [ok |-> FALSE, err |-> Err(cls, msg, about), hit |-> FALSE]
Returned(v, hit) == [ok |-> TRUE, val |-> v, hit |-> hit]
Rethrown(e) == [ok |-> FALSE, err |-> e, hit |-> FALSE]

TickerNotFound == <<"Stock ticker '", "${ticker}", "' ", "not found">>
TickersNotFound == <<"Stock tickers ", "not found", ": ", "${tickers.join(', ')}">>
RateLimitMessage == <<"Rate limit exceeded. Please try again later">>

\* error instanceof Error: false of a thrown value that is no Error object
InstanceOfError(e) == e.cls # "NonError"

\* a catch block that rethrows whatever it caught
GetQuoteCatchRethrow(e, ticker) == Rethrown(e)

\* the catch block of getQuote
GetQuoteCatch(e, ticker) ==
    IF ~InstanceOfError(e) THEN Rethrown(e)
    ELSE IF Includes(e.msg, "No definition") \/ Includes(e.msg, "not found")
    THEN Thrown("NotFoundError", TickerNotFound, ticker)
    ELSE IF Includes(e.msg, "rate limit") THEN Thrown("RateLimitError", RateLimitMessage, <<>>)
    ELSE Rethrown(e)

\* getQuote after `await this.yahooClient.quote(ticker, options)`: what it
\* settles with; a result with ok is also stored in the cache
GetQuoteResult(input, out) ==
    IF ~out.ok THEN GetQuoteCatch(out.body, input.ticker)
    ELSE IF Falsy(out.body)
    THEN GetQuoteCatch(Err("NotFoundError", TickerNotFound, input.ticker), input.ticker)
    ELSE IF IsArray(out.body) /\ Len(out.body.v) = 0
    THEN GetQuoteCatch(Err("NotFoundError", TickerNotFound, input.ticker), input.ticker)
    ELSE LET quote == IF IsArray(out.body) THEN out.body.v[1] ELSE out.body.v
         IN Returned(mapToStockQuoteResponse(quote, input.ticker), FALSE)

\* the catch block of getQuotes
GetQuotesCatch(e) ==
    IF ~InstanceOfError(e) THEN Rethrown(e)
    ELSE IF Includes(e.msg, "rate limit") THEN Thrown("RateLimitError", RateLimitMessage, <<>>)
    ELSE Rethrown(e)

\* getQuotes that keeps the first record only, as getQuote does
GetQuotesResultFirstOnly(tickers, out) ==
    IF ~out.ok THEN GetQuotesCatch(out.body)
    ELSE IF EmptyResult(out.body)
    THEN GetQuotesCatch(Err("NotFoundError", TickersNotFound, Join(tickers, S_commaSpace)))
    ELSE LET q == IF IsArray(out.body) THEN out.body.v[1] ELSE out.body.v
         IN Returned(<<mapToStockQuoteResponse(q, IF Has(q, "symbol") THEN q.symbol
                                                  ELSE S_unknown)>>, FALSE)

\* getQuotes after `await this.yahooClient.quote(tickers, options)`; tickers
\* is the input array, which tickers.sort() has sorted in place
GetQuotesResult(tickers, out) ==
    IF ~out.ok THEN GetQuotesCatch(out.body)
    ELSE IF Falsy(out.body)
    THEN GetQuotesCatch(Err("NotFoundError", TickersNotFound, Join(tickers, S_commaSpace)))
    ELSE LET quotes == IF IsArray(out.body) THEN out.body.v ELSE <<out.body.v>>
         IN Returned(MapSeq(quotes, LAMBDA q :
                        mapToStockQuoteResponse(q, IF Has(q, "symbol") THEN q.symbol
                                                   ELSE S_unknown)), FALSE)

\* a search that asks of a match its symbol and its exchange only
SearchResultAnyName(out) ==
    IF ~out.ok THEN Rethrown(out.body)
    ELSE IF Falsy(out.body) THEN Thrown("TypeError", <<"Cannot read properties of undefined">>, <<>>)
    ELSE LET quotes == IF Has(out.body.v, "quotes") THEN out.body.v.quotes ELSE <<>>
             kept == SelectSeq(quotes, LAMBDA q : Has(q, "symbol") /\ Has(q, "exchange"))
         IN Returned(MapSeq(kept, LAMBDA q :
                        [symbol |-> q.symbol,
                         name |-> IF Has(q, "shortname") THEN q.shortname
                                  ELSE IF Has(q, "longname") THEN q.longname ELSE S_empty,
                         exchange |-> q.exchange]), FALSE)

\* search after `await this.yahooClient.search(query)`; nothing is caught
SearchResult(out) ==
    IF ~out.ok THEN Rethrown(out.body)
    ELSE IF Falsy(out.body) THEN Thrown("TypeError", <<"Cannot read properties of undefined">>, <<>>)
    ELSE LET quotes == IF Has(out.body.v, "quotes") THEN out.body.v.quotes ELSE <<>>
             kept == SelectSeq(quotes, LAMBDA q :
                        /\ Has(q, "symbol") /\ Has(q, "exchange")
                        /\ (Has(q, "shortname") \/ Has(q, "longname")))
         IN Returned(MapSeq(kept, LAMBDA q :
                        [symbol |-> q.symbol,
                         name |-> IF Has(q, "shortname") THEN q.shortname ELSE q.longname,
                         exchange |-> q.exchange]), FALSE)


(***************************************************************************)
(* Dates. The text of a date is <<y, m, d>> when it has the form           *)
(* YYYY-MM-DD and <<>> otherwise; a Date is Some(<<y, m, d>>), or None     *)
(* for the Invalid Date.                                                   *)
(***************************************************************************)
IsLeap(y) == (y % 4 = 0 /\ y % 100 # 0) \/ y % 400 = 0

DaysInMonth(y, m) ==
    IF m = 2 THEN (IF IsLeap(y) THEN 29 ELSE 28)
    ELSE IF m \in {4, 6, 9, 11} THEN 30 ELSE 31

\* date-fns parseISO: the Invalid Date unless month and day exist
parseISO(text) ==
    IF Len(text) # 3 THEN None
    ELSE IF text[2] \in 1..12 /\ text[3] >= 1 /\ text[3] <= DaysInMonth(text[1], text[2])
    THEN Some(text) ELSE None

isValid(date) == date # None

\* date-fns compareAsc on two valid dates
compareAsc(a, b) ==
    IF a = b THEN 0
    ELSE IF \/ a[1] < b[1]
            \/ (a[1] = b[1] /\ a[2] < b[2])
            \/ (a[1] = b[1] /\ a[2] = b[2] /\ a[3] < b[3]) THEN 0 - 1
    ELSE 1

isAfter(a, b) == compareAsc(a[1], b[1]) = 1

\* date-fns differenceInYears: the number of full years from earlier to later
differenceInYears(later, earlier) ==
    LET l == later[1]
        e == earlier[1]
        sign == compareAsc(l, e)
        diff == IF l[1] >= e[1] THEN l[1] - e[1] ELSE e[1] - l[1]
        \* both dates moved into the leap year 1584
        notFull == compareAsc(<<1584, l[2], l[3]>>, <<1584, e[2], e[3]>>) = 0 - sign
    IN sign * (diff - (IF notFull THEN 1 ELSE 0))

\* format(addDays(date, 1), 'yyyy-MM-dd')
NextDay(d) ==
    IF d[3] < DaysInMonth(d[1], d[2]) THEN <<d[1], d[2], d[3] + 1>>
    ELSE IF d[2] < 12 THEN <<d[1], d[2] + 1, 1>>
    ELSE <<d[1] + 1, 1, 1>>

MaxYears == 5

\* the checks without the one on the order of the two dates
ValidateRangeNoOrder(fromDate, toDate, tdy) ==
    LET fromDateObj == parseISO(fromDate)
        toDateObj == parseISO(toDate)
    IN IF ~isValid(fromDateObj) THEN Some(<<"Invalid fromDate: ", "${fromDate}">>)
       ELSE IF ~isValid(toDateObj) THEN Some(<<"Invalid toDate: ", "${toDate}">>)
       ELSE IF isAfter(fromDateObj, Some(tdy)) THEN Some(<<"fromDate cannot be in the future.">>)
       ELSE IF differenceInYears(toDateObj, fromDateObj) > MaxYears
       THEN Some(<<"Date range cannot exceed 5 years.">>)
       ELSE None

\* the checks of getHistoricalData, in their order: the message of the
\* first one violated, or None
ValidateRange(fromDate, toDate, tdy) ==
    LET fromDateObj == parseISO(fromDate)
        toDateObj == parseISO(toDate)
    IN IF ~isValid(fromDateObj) THEN Some(<<"Invalid fromDate: ", "${fromDate}">>)
       ELSE IF ~isValid(toDateObj) THEN Some(<<"Invalid toDate: ", "${toDate}">>)
       ELSE IF isAfter(fromDateObj, Some(tdy)) THEN Some(<<"fromDate cannot be in the future.">>)
       ELSE IF isAfter(fromDateObj, toDateObj)
       THEN Some(<<"fromDate must be before or equal to toDate.">>)
       ELSE IF differenceInYears(toDateObj, fromDateObj) > MaxYears
       THEN Some(<<"Date range cannot exceed 5 years.">>)
       ELSE None

\* Math.round(x * 100) / 100, on prices counted in thousandths
RoundCents(x) == ((x + 5) \div 10) * 10

CouldNotFetch == <<"Could not fetch historical data for ", "${ticker}",
                   ". Please check the ticker and date range.">>

\* a catch block that rethrows what it caught
HistCatchRethrow(e, ticker) == Rethrown(e)

\* the catch block of getHistoricalData
HistCatch(e, ticker) ==
    IF e.cls = "ValidationError" THEN Rethrown(e)
    ELSE Thrown("NotFoundError", CouldNotFetch, ticker)

\* quote.date && quote.close && quote.high && quote.low && quote.volume
BarComplete(q) ==
    /\ Has(q, "date")
    /\ \A k \in {"close", "high", "low", "volume"} : Has(q, k) /\ q[k] # 0

\* getHistoricalData after `await this.yahooClient.chart(...)`
HistResult(ticker, out) ==
    IF ~out.ok THEN HistCatch(out.body, ticker)
    ELSE IF Falsy(out.body)
    THEN HistCatch(Err("TypeError", <<"Cannot read properties of undefined">>, <<>>), ticker)
    ELSE LET quotes == IF Has(out.body.v, "quotes") THEN out.body.v.quotes ELSE <<>>
             kept == SelectSeq(quotes, BarComplete)
         IN IF \E i \in 1..Len(kept) : parseISO(kept[i].date) = None
            THEN HistCatch(Err("RangeError", <<"Invalid time value">>, <<>>), ticker)
            ELSE Returned(MapSeq(kept, LAMBDA q :
                            [date |-> q.date, close |-> RoundCents(q.close),
                             high |-> RoundCents(q.high), low |-> RoundCents(q.low),
                             volume |-> q.volume]), FALSE)


(***************************************************************************)
(* The operations of the service, each cut at its one suspension: the      *)
(* part up to `await this.yahooClient...`, and the part after it.          *)
(***************************************************************************)
SvcInst == 1

NewReq(op, input, key, pc, task, res) ==
    [op |-> op, in |-> input, key |-> key, pc |-> pc, task |-> task, res |-> res,
     after |-> {r \in 1..Len(reqs) : reqs[r].pc = "done"}]

NoResult == [ok |-> FALSE, err |-> Err("pending", <<>>, <<>>), hit |-> FALSE]

\* bound of the model: the requests of one run are all of one operation
SameOperation(op) == \A r \in 1..Len(reqs) : reqs[r].op = op

\* cache lookup, and on a miss the call handed to the client
LookupOrCall(op, input, key, kind, arg) ==
    LET got == CacheGet(cache, key, now)
    IN /\ SameOperation(op)
       /\ IF got # None
          THEN /\ reqs' = Append(reqs, NewReq(op, input, key, "done", 0, Returned(got[1], TRUE)))
               /\ UNCHANGED <<tasks, queue, resolved, cache>>
          ELSE /\ reqs' = Append(reqs, NewReq(op, input, key, "pending", Len(tasks) + 1, NoResult))
               /\ cache' = CacheAfterGet(cache, key, now)
               /\ EnqueueTask(SvcInst, kind, arg)

\* getQuote up to its return on a cache hit or to its await on a miss
GetQuoteCall(input) ==
    /\ Len(reqs) < MaxReqs
    /\ LookupOrCall("getQuote", input, QuoteKey(input), "quote",
                    [syms |-> <<input.ticker>>, list |-> FALSE,
                     opt |-> QuoteOptions(input.fields)])
    /\ UNCHANGED <<upLog, now, today, multi>>

GetQuote(input) == GetQuoteCall(input) /\ UNCHANGED http

\* `tickers.sort()` sorts the array of the caller in place and returns it:
\* what the caller's array holds from then on
TickersAfterSort(tickers) == Sort(tickers)

\* held is the caller's array once the call has been made
GetQuotes(input) ==
    /\ Len(reqs) < MaxReqs
    /\ LookupOrCall("getQuotes",
                    [tickers |-> input.tickers, fields |-> input.fields,
                     held |-> TickersAfterSort(input.tickers)],
                    QuotesKey(input), "quote",
                    [syms |-> Sort(input.tickers), list |-> TRUE,
                     opt |-> QuoteOptions(input.fields)])
    /\ UNCHANGED <<upLog, now, today, multi, http>>

Search(query) ==
    /\ Len(reqs) < MaxReqs
    /\ LookupOrCall("search", [query |-> query], SearchKey(query), "search",
                    [syms |-> <<query>>, list |-> FALSE, opt |-> None])
    /\ UNCHANGED <<upLog, now, today, multi, http>>

\* getHistoricalData up to `await this.yahooClient.chart(...)`, or to the
\* ValidationError it throws before
HistoricalCall(ticker, fromDate, toDate) ==
    /\ LET input == [ticker |-> ticker, fromDate |-> fromDate, toDate |-> toDate]
           bad == ValidateRange(fromDate, toDate, today)
       IN IF bad # None
          THEN /\ reqs' = Append(reqs, NewReq("getHistoricalData", input, <<>>, "done", 0,
                                              Thrown("ValidationError", bad[1], <<>>)))
               /\ UNCHANGED <<tasks, queue, resolved>>
          ELSE /\ reqs' = Append(reqs, NewReq("getHistoricalData", input, <<>>, "pending",
                                              Len(tasks) + 1, NoResult))
               /\ EnqueueTask(SvcInst, "chart",
                              [syms |-> <<ticker>>, list |-> FALSE,
                               opt |-> Some([period1 |-> fromDate,
                                             period2 |-> NextDay(parseISO(toDate)[1])])])
    /\ UNCHANGED <<upLog, cache, now, today, multi, http>>

GetHistoricalData(ticker, fromDate, toDate) ==
    /\ Len(reqs) < MaxHistReqs
    /\ HistoricalCall(ticker, fromDate, toDate)

\* what the operation settles with, given what its upstream call settled with
ResultOf(rq, out) ==
    CASE rq.op = "getQuote" -> GetQuoteResult(rq.in, out)
      [] rq.op = "getQuotes" -> GetQuotesResult(Sort(rq.in.tickers), out)
      [] rq.op = "search" -> SearchResult(out)
      [] rq.op = "getHistoricalData" -> HistResult(rq.in.ticker, out)

\* an operation that stores nothing
CacheAfterNoStore(rq, res) == cache

\* an operation that stores what it settles with, the error of a failure too
CacheAfterFailureToo(rq, res) ==
    IF rq.op = "getHistoricalData" THEN cache
    ELSE CacheSet(cache, rq.key, IF res.ok THEN res.val ELSE res.err,
                  IF rq.op = "search" THEN searchTTL ELSE stdTTL, now)

\* every operation, getHistoricalData too, stores its response
CacheAfterHistoryToo(rq, res) ==
    IF ~res.ok THEN cache
    ELSE CacheSet(cache, rq.key, res.val, IF rq.op = "search" THEN searchTTL ELSE stdTTL, now)

\* this.cache.set(cacheKey, response) / this.cache.set(cacheKey, searchResults, 1800);
\* getHistoricalData stores nothing
CacheAfter(rq, res) ==
    IF ~res.ok \/ rq.op = "getHistoricalData" THEN cache
    ELSE CacheSet(cache, rq.key, res.val, IF rq.op = "search" THEN searchTTL ELSE stdTTL, now)

\* the operation resumes after its upstream call has settled
\* continuations that run in any order
InTurnAlways(r) == TRUE

\* the continuations of `await this.yahooClient.quote(...)` run in the order
\* in which the awaited promises settled: a settled promise's reactions are
\* queued as jobs when it settles, and the job queue is first in, first out
InTurn(r) ==
    \A q \in 1..Len(reqs) :
        (reqs[q].pc = "pending" /\ tasks[reqs[q].task].st = "settled") =>
            tasks[reqs[r].task].out.ser <= tasks[reqs[q].task].out.ser

Deliver(r) ==
    /\ reqs[r].pc = "pending"
    /\ tasks[reqs[r].task].st = "settled"
    /\ InTurn(r)
    /\ LET res == ResultOf(reqs[r], tasks[reqs[r].task].out)
       IN /\ reqs' = [reqs EXCEPT ![r].pc = "done", ![r].res = res]
          /\ cache' = CacheAfter(reqs[r], res)
    /\ UNCHANGED <<tasks, queue, resolved, upLog, now, today, multi, http>>

\* the instants the clock is looked at
Instants == {0, stdTTL, stdTTL + 1, searchTTL, searchTTL + 1}

Tick(n) ==
    /\ n > now
    /\ now' = n
    /\ UNCHANGED <<tasks, queue, resolved, upLog, reqs, cache, today, multi, http>>

\* NodeCache's checkperiod timer
Sweep ==
    /\ cache' = CacheSwept(cache, now)
    /\ cache' # cache
    /\ UNCHANGED <<tasks, queue, resolved, upLog, reqs, now, today, multi, http>>


\* no getMultipleQuotes invocation
NoMulti == [pc |-> "idle"]

\* the HTTP strategy once constructed: this.server connected to no transport
\* (conn 0), no POST received; sdk is the behaviour of the installed
\* @modelcontextprotocol/sdk, unknown until a connect meets a connected server
NoHttp == [conn |-> 0, sdk |-> "unknown", posts |-> <<>>]

Init ==
    /\ tasks = <<>>
    /\ queue = 0
    /\ resolved = {0}
    /\ upLog = <<>>
    /\ reqs = <<>>
    /\ cache = <<>>
    /\ now = 0
    /\ today = <<2024, 6, 15>>
    /\ multi = NoMulti
    /\ http = NoHttp

Next ==
    \/ \E i \in Insts, k \in Kinds : ClientCall(i, k)
    \/ \E t \in 1..Len(tasks) : Start(t)
    \/ \E t \in 1..Len(tasks) : \E o \in UpstreamOutcomes(tasks[t].kind) : Finish(t, o)

Spec == Init /\ [][Next]_vars

\* the continuation of `await previous` is run once previous is resolved
StartAt(t) == t \in 1..Len(tasks) /\ Start(t)

\* the upstream call of a started task completes, resolving or rejecting
FinishAt(t) == t \in 1..Len(tasks) /\ \E o \in UpstreamOutcomes(tasks[t].kind) : Finish(t, o)

\* the serializer under an event loop that runs every continuation that is
\* ready, and an upstream whose every call eventually completes
NextFair ==
    \/ \E i \in Insts : ClientCall(i, "quote")
    \/ \E t \in 1..Len(tasks) : Start(t)
    \/ \E t \in 1..Len(tasks) : \E o \in UpstreamOutcomes(tasks[t].kind) : Finish(t, o)

SpecFair ==
    /\ Init /\ [][NextFair]_vars
    /\ \A t \in 1..MaxTasks : WF_vars(StartAt(t)) /\ WF_vars(FinishAt(t))

(***************************************************************************)
(* The service with its cache, over the serializer.                        *)
(***************************************************************************)
QuoteInputs == [ticker : {S_A}, fields : {None, Some(<<S_price, S_vol>>), Some(<<S_vol, S_price>>)}]
QuotesInputs == [tickers : {<<S_A, S_B>>, <<S_B, S_A>>}, fields : {None}]
SearchInputs == {S_query}

NextService ==
    \/ \E input \in QuoteInputs : GetQuote(input)
    \/ \E input \in QuotesInputs : GetQuotes(input)
    \/ \E query \in SearchInputs : Search(query)
    \/ \E t \in 1..Len(tasks) : Start(t)
    \/ \E t \in 1..Len(tasks) : \E o \in UpstreamOutcomes(tasks[t].kind) : Finish(t, o)
    \/ \E r \in 1..Len(reqs) : Deliver(r)
    \/ \E n \in Instants : Tick(n)
    \/ Sweep

SpecService == Init /\ [][NextService]_vars

(***************************************************************************)
(* getHistoricalData, over the serializer.                                 *)
(***************************************************************************)
DateTexts == {<<>>, <<2023, 2, 30>>, <<2018, 6, 15>>, <<2023, 6, 15>>, <<2023, 6, 16>>,
              <<2024, 6, 14>>, <<2024, 6, 15>>}
Todays == {<<2024, 6, 15>>, <<2020, 1, 1>>}

InitHistory ==
    /\ tasks = <<>>
    /\ queue = 0
    /\ resolved = {0}
    /\ upLog = <<>>
    /\ reqs = <<>>
    /\ cache = <<>>
    /\ now = 0
    /\ today \in Todays
    /\ multi = NoMulti
    /\ http = NoHttp

NextHistory ==
    \/ \E f \in DateTexts, t \in DateTexts : GetHistoricalData(S_A, f, t)
    \/ \E t \in 1..Len(tasks) : Start(t)
    \/ \E t \in 1..Len(tasks) : \E o \in UpstreamOutcomes(tasks[t].kind) : Finish(t, o)
    \/ \E r \in 1..Len(reqs) : Deliver(r)

SpecHistory == InitHistory /\ [][NextHistory]_vars

(***************************************************************************)
(* getMultipleQuotes: a loop of getQuote calls, each awaited in its turn.  *)
(***************************************************************************)
\* a loop body without its try / catch: the failure of getQuote leaves the loop
MultiAfterRethrow(results, ticker, res) ==
    IF res.ok THEN [thrown |-> FALSE, results |-> (ticker :> res.val) @@ results]
    ELSE [thrown |-> TRUE, results |-> results]

\* the loop body after `await this.getQuote({ ticker })` has settled:
\* results.set(ticker, quote), or the catch block, which logs and goes on
MultiAfter(results, ticker, res) ==
    IF res.ok THEN [thrown |-> FALSE, results |-> (ticker :> res.val) @@ results]
    ELSE [thrown |-> FALSE, results |-> results]

\* the loop from its i-th iteration up to `await this.getQuote(...)`, or to
\* `return results` when the tickers are exhausted
MultiLoop(tickers, i, results) ==
    IF i > Len(tickers)
    THEN /\ multi' = [pc |-> "done", tickers |-> tickers, i |-> i, results |-> results, req |-> 0]
         /\ UNCHANGED <<tasks, queue, resolved, reqs, cache>>
    ELSE LET input == [ticker |-> tickers[i], fields |-> None]
         IN /\ multi' = [pc |-> "await", tickers |-> tickers, i |-> i, results |-> results,
                         req |-> Len(reqs) + 1]
            /\ LookupOrCall("getQuote", input, QuoteKey(input), "quote",
                            [syms |-> <<input.ticker>>, list |-> FALSE,
                             opt |-> QuoteOptions(input.fields)])

GetMultipleQuotes(tickers) ==
    /\ multi.pc = "idle"
    /\ MultiLoop(tickers, 1, <<>>)
    /\ UNCHANGED <<upLog, now, today, http>>

\* the awaited getQuote has settled: the loop takes its outcome and goes on
MultiResume ==
    /\ multi.pc = "await"
    /\ reqs[multi.req].pc = "done"
    /\ LET a == MultiAfter(multi.results, multi.tickers[multi.i], reqs[multi.req].res)
       IN IF a.thrown
          THEN /\ multi' = [multi EXCEPT !.pc = "rejected"]
               /\ UNCHANGED <<tasks, queue, resolved, reqs, cache>>
          ELSE MultiLoop(multi.tickers, multi.i + 1, a.results)
    /\ UNCHANGED <<upLog, now, today, http>>

MultiTickers == SeqsUpTo({S_A, S_B}, MaxTickers)

NextMulti ==
    \/ \E tickers \in MultiTickers : GetMultipleQuotes(tickers)
    \/ MultiResume
    \/ \E t \in 1..Len(tasks) : Start(t)
    \/ \E t \in 1..Len(tasks) : \E o \in UpstreamOutcomes(tasks[t].kind) : Finish(t, o)
    \/ \E r \in 1..Len(reqs) : Deliver(r)

SpecMulti == Init /\ [][NextMulti]_vars

(***************************************************************************)
(* getHistoricalData next to a cache that getQuote has filled.             *)
(***************************************************************************)
RepeatDates == {<<2023, 6, 15>>, <<2023, 6, 16>>}

NextHistoryRepeat ==
    \/ \E input \in [ticker : {S_A}, fields : {None}] : GetQuote(input)
    \/ \E f \in RepeatDates, t \in RepeatDates : Len(reqs) < MaxReqs /\ HistoricalCall(S_A, f, t)
    \/ \E t \in 1..Len(tasks) : Start(t)
    \/ \E t \in 1..Len(tasks) : \E o \in UpstreamOutcomes(tasks[t].kind) : Finish(t, o)
    \/ \E r \in 1..Len(reqs) : Deliver(r)
    \/ \E n \in Instants : Tick(n)

SpecHistoryRepeat == Init /\ [][NextHistoryRepeat]_vars

(***************************************************************************)
(* The service next to other callers of the client, whose calls occupy the *)
(* queue; an upstream call that never settles is a hung call.              *)
(***************************************************************************)
NextBusy ==
    \/ \E input \in [ticker : {S_A}, fields : {None}] : GetQuote(input)
    \/ \E input \in [tickers : {<<S_A, S_B>>}, fields : {None}] : GetQuotes(input)
    \/ \E query \in SearchInputs : Search(query)
    \/ \E i \in Insts \ {SvcInst} : ClientCall(i, "quote")
    \/ \E t \in 1..Len(tasks) : Start(t)
    \/ \E t \in 1..Len(tasks) : \E o \in UpstreamOutcomes(tasks[t].kind) : Finish(t, o)
    \/ \E r \in 1..Len(reqs) : Deliver(r)

SpecBusy == Init /\ [][NextBusy]_vars

(***************************************************************************)
(* The service called with fields and tickers that hold the separators of  *)
(* the cache keys or the default 'all'; the schemas admit any string as a  *)
(* field and any string of 1 to 10 characters as a ticker.                 *)
(***************************************************************************)
S_priceCommaVol == Join(<<S_price, S_vol>>, S_comma)
S_ACommaB == Join(<<S_A, S_B>>, S_comma)

KeyQuoteInputs ==
    [ticker : {S_A},
     fields : {None, Some(<<S_all>>), Some(<<S_price, S_vol>>), Some(<<S_priceCommaVol>>)}]
KeyQuotesInputs == [tickers : {<<S_A, S_B>>, <<S_ACommaB>>}, fields : {None}]

NextKeys ==
    \/ \E input \in KeyQuoteInputs : GetQuote(input)
    \/ \E input \in KeyQuotesInputs : GetQuotes(input)
    \/ \E query \in SearchInputs : Search(query)
    \/ \E t \in 1..Len(tasks) : Start(t)
    \/ \E t \in 1..Len(tasks) : \E o \in UpstreamOutcomes(tasks[t].kind) : Finish(t, o)
    \/ \E r \in 1..Len(reqs) : Deliver(r)

SpecKeys == Init /\ [][NextKeys]_vars

(***************************************************************************)
(* The get_stock_quote tool: its arguments pass through StockQuoteSchema   *)
(* and the handler calls getQuote with the parsed values.                  *)
(***************************************************************************)
MaxTickerLength == 10

\* a schema that leaves the ticker as it was given
tickerAsGiven(s) == s

\* String.prototype.toUpperCase on the letters a to z
toUpperCase(s) == [i \in 1..Len(s) |-> IF s[i] \in 97..122 THEN s[i] - 32 ELSE s[i]]

\* z.string().min(1).max(10): the arguments that reach the handler
SchemaAccepts(args) == Len(args.ticker) >= 1 /\ Len(args.ticker) <= MaxTickerLength

\* the arguments the handler receives; raw keeps the ticker as it was sent
StockQuoteSchema(args) ==
    [ticker |-> toUpperCase(args.ticker), fields |-> args.fields, raw |-> args.ticker]

\* the handler of get_stock_quote, up to `await stockService.getQuote(...)`
GetStockQuoteTool(args) ==
    /\ SchemaAccepts(args)
    /\ GetQuote(StockQuoteSchema(args))

(***************************************************************************)
(* POST /mcp of HttpTransportStrategy.  The constructor creates one        *)
(* McpServer, this.server, and registers the tools on it once; the route   *)
(* handler creates a transport per request and connects this.server to it. *)
(***************************************************************************)
MaxPosts == 2

\* the McpServer every POST is served by
TheServer == "this.server"

\* res.status(500)
InternalServerError == 500

\* Protocol.connect on a server that is connected already: it throws
\* 'Already connected to a transport' or it replaces the transport,
\* depending on the version of the SDK that is installed
SdkBuilds == {"throws", "replaces"}

NewPost(pc, status, req) == [pc |-> pc, status |-> status, req |-> req, server |-> TheServer]

\* the route handler up to the suspension of the tool handler it reaches:
\* new transport, this.server.connect(transport), transport.handleRequest,
\* which runs the get_stock_quote handler; or the catch block
Post(args) ==
    /\ Len(http.posts) < MaxPosts
    /\ \E build \in (IF http.conn # 0 /\ http.sdk = "unknown" THEN SdkBuilds ELSE {http.sdk}) :
          IF http.conn # 0 /\ build = "throws"
          THEN /\ http' = [http EXCEPT !.sdk = build,
                                       !.posts = Append(@, NewPost("failed", InternalServerError, 0))]
               /\ UNCHANGED <<tasks, queue, resolved, upLog, reqs, cache, now, today, multi>>
          ELSE IF SchemaAccepts(args)
          THEN /\ GetQuoteCall(StockQuoteSchema(args))
               /\ http' = [http EXCEPT !.sdk = build, !.conn = Len(http.posts) + 1,
                                       !.posts = Append(@, NewPost("handling", 0, Len(reqs) + 1))]
          ELSE /\ http' = [http EXCEPT !.sdk = build, !.conn = Len(http.posts) + 1,
                                       !.posts = Append(@, NewPost("handling", 0, 0))]
               /\ UNCHANGED <<tasks, queue, resolved, upLog, reqs, cache, now, today, multi>>

\* the tool handler has its result (or the schema its error) and the server
\* sends the response through its transport: the transport of this request
\* writes it to res; when this.server has been connected to another
\* transport or disconnected meanwhile, the response may not reach res
Respond(p) ==
    /\ http.posts[p].pc = "handling"
    /\ http.posts[p].req # 0 => reqs[http.posts[p].req].pc = "done"
    /\ \E routed \in (IF http.conn = p THEN {TRUE} ELSE {TRUE, FALSE}) :
          http' = [http EXCEPT !.posts[p].pc = IF routed THEN "responded" ELSE "lost"]
    /\ UNCHANGED <<tasks, queue, resolved, upLog, reqs, cache, now, today, multi>>

\* res 'close': transport.close(), whose onclose disconnects this.server
Close(p) ==
    /\ http.posts[p].pc \in {"responded", "lost"}
    /\ http' = [http EXCEPT !.posts[p].pc = "closed", !.conn = 0]
    /\ UNCHANGED <<tasks, queue, resolved, upLog, reqs, cache, now, today, multi>>

PostTickers == {S_empty, S_A}

NextHttp ==
    \/ \E raw \in PostTickers : Post([ticker |-> raw, fields |-> None])
    \/ \E p \in 1..Len(http.posts) : Respond(p)
    \/ \E p \in 1..Len(http.posts) : Close(p)
    \/ \E t \in 1..Len(tasks) : Start(t)
    \/ \E t \in 1..Len(tasks) : \E o \in UpstreamOutcomes(tasks[t].kind) : Finish(t, o)
    \/ \E r \in 1..Len(reqs) : Deliver(r)

SpecHttp == Init /\ [][NextHttp]_vars

RawTickers == {S_empty, S_a, S_A, S_space_a, S_A_space}

NextTool ==
    \/ \E raw \in RawTickers : GetStockQuoteTool([ticker |-> raw, fields |-> None])
    \/ \E t \in 1..Len(tasks) : Start(t)
    \/ \E t \in 1..Len(tasks) : \E o \in UpstreamOutcomes(tasks[t].kind) : Finish(t, o)
    \/ \E r \in 1..Len(reqs) : Deliver(r)

SpecTool == Init /\ [][NextTool]_vars

(***************************************************************************)
(* The service on every shape of upstream answer: one operation at a time, *)
(* its upstream call settled with any value or error of the sets below.    *)
(***************************************************************************)
\* records of the upstream quote call: with a symbol or without, with both
\* names, one or none, with attributes undefined (left out) or null
QuoteRecords ==
    {[symbol |-> S_A, shortName |-> S_ShortOne, longName |-> S_LongOne, exchange |-> S_X,
      regularMarketPrice |-> 170],
     [symbol |-> S_B, longName |-> S_LongOne],
     [regularMarketPrice |-> 170, nulls |-> {"symbol", "shortName", "longName"}],
     [symbol |-> S_A, shortName |-> S_ShortOne, nulls |-> {"exchange"}]}

QuoteErrors ==
    {Err("Error", m, <<>>) : m \in {<<"No definition">>, <<"Quote ", "not found">>,
                                      <<"rate limit">>, <<"not found", "rate limit">>,
                                      <<"Network error">>}}
    \cup {Err("NonError", <<"rate limit">>, <<>>)}

\* matches of the upstream search call
SearchMatches ==
    {[symbol |-> S_A, shortname |-> S_ShortOne, longname |-> S_LongOne, exchange |-> S_X],
     [symbol |-> S_B, longname |-> S_LongOne, exchange |-> S_X, nulls |-> {"shortname"}],
     [symbol |-> S_A, exchange |-> S_X],
     [shortname |-> S_ShortOne, exchange |-> S_X],
     [symbol |-> S_B, shortname |-> S_ShortOne, nulls |-> {"exchange"}]}

\* daily records of the upstream chart call; prices in thousandths
ChartBars ==
    {[date |-> <<2023, 6, 15>>, close |-> 100004, high |-> 105000, low |-> 95000, volume |-> 1000],
     [date |-> <<2023, 6, 16>>, close |-> 101006, high |-> 105000, low |-> 95000, volume |-> 0],
     [date |-> <<2023, 6, 17>>, close |-> 0, high |-> 105000, low |-> 95000, volume |-> 1000],
     [date |-> <<2023, 6, 18>>, close |-> 102000, high |-> 105000, low |-> 95000],
     [date |-> <<2023, 6, 19>>, high |-> 105000, low |-> 95000, volume |-> 1000,
      nulls |-> {"close"}],
     [close |-> 103000, high |-> 105000, low |-> 95000, volume |-> 1000]}

Answers(kind) ==
    CASE kind = "quote" ->
            [ok : {TRUE}, body : {Undefined, Null} \cup {Obj(q) : q \in QuoteRecords}
                                 \cup {Arr(s) : s \in SeqsUpTo(QuoteRecords, MaxRecords)}]
            \cup [ok : {FALSE}, body : QuoteErrors]
      [] kind = "search" ->
            [ok : {TRUE}, body : {Obj([count |-> 0])}
                                 \cup {Obj([quotes |-> s]) : s \in SeqsUpTo(SearchMatches, MaxRecords)}]
            \cup [ok : {FALSE}, body : {Err("Error", <<"Network error">>, <<>>)}]
      [] kind = "chart" ->
            [ok : {TRUE}, body : {Undefined, Obj([meta |-> 0])}
                                 \cup {Obj([quotes |-> s]) : s \in SeqsUpTo(ChartBars, MaxRecords)}]
            \cup [ok : {FALSE}, body : {Err("Error", <<"Network error">>, <<>>)}]

FieldNames == {S_empty, S_name, S_shortName, S_longName, S_price}
AnyFields == {None} \cup {Some(s) : s \in SeqsUpTo(FieldNames, MaxFields)}
AnswerQuoteInputs == [ticker : {S_A}, fields : AnyFields]
AnswerQuotesInputs == [tickers : {<<S_A>>, <<S_A, S_B>>, <<S_B, S_A>>},
                       fields : {None, Some(<<S_name, S_price>>)}]

NextAnswers ==
    \/ \E input \in AnswerQuoteInputs : reqs = <<>> /\ GetQuote(input)
    \/ \E input \in AnswerQuotesInputs : reqs = <<>> /\ GetQuotes(input)
    \/ \E query \in SearchInputs : reqs = <<>> /\ Search(query)
    \/ reqs = <<>> /\ GetHistoricalData(S_A, <<2023, 6, 15>>, <<2023, 6, 19>>)
    \/ \E t \in 1..Len(tasks) : Start(t)
    \/ \E t \in 1..Len(tasks) : \E a \in Answers(tasks[t].kind) : Settle(t, a.ok, a.body)
    \/ \E r \in 1..Len(reqs) : Deliver(r)

SpecAnswers == Init /\ [][NextAnswers]_vars


(***************************************************************************)
(* Properties.                                                             *)
(***************************************************************************)
Running == {t \in 1..Len(tasks) : tasks[t].st = "running"}
Started(t) == tasks[t].st \in {"running", "settled"}
Settled(t) == tasks[t].st = "settled"

\* C1: at every moment at most one upstream call started through
\* YahooFinanceClient is executing, whatever the number of callers and of
\* client instances
AtMostOneInFlight == Cardinality(Running) <= 1

\* three calls from both client instances are outstanding and one of them is executing
AtMostOneInFlightWitness ==
    /\ Len(tasks) = 3
    /\ \E a, b \in 1..Len(tasks) : tasks[a].inst # tasks[b].inst
    /\ Cardinality(Running) = 1
    /\ \E t \in 1..Len(tasks) : tasks[t].st = "waiting"

\* C2: upstream calls start in the order of their enqueueing: a call has not
\* started as long as a call enqueued before it, on any instance, has not
\* finished, by success or by failure
StartInEnqueueOrder ==
    \A a, b \in 1..Len(tasks) : (a < b /\ Started(b)) => Settled(a)

\* the first call failed, the second one runs, the third one waits for it
StartInEnqueueOrderWitness ==
    /\ Len(tasks) = 3
    /\ Settled(1) /\ ~tasks[1].out.ok
    /\ tasks[2].st = "running"
    /\ tasks[3].st = "waiting"
    /\ tasks[1].inst # tasks[2].inst

\* C3: the caller of enqueue receives the outcome of its own task and of no
\* other; a failure reaches only its own caller, releases the queue, and the
\* task enqueued next can run
OwnOutcomeAndRelease ==
    \A t \in 1..Len(tasks) : Settled(t) =>
        /\ \E i \in 1..Len(upLog) :
              /\ upLog[i].task = t
              /\ tasks[t].out = upLog[i].out
              /\ \A j \in 1..Len(upLog) : upLog[j].task = t => j = i
        /\ \A u \in 1..Len(tasks) : (u # t /\ Settled(u)) => tasks[u].out # tasks[t].out
        /\ t \in resolved
        /\ (t < Len(tasks) /\ tasks[t + 1].st = "waiting") => MayStart(t + 1)

\* a task failed, and the task enqueued after it ran and succeeded
OwnOutcomeAndReleaseWitness ==
    /\ Len(tasks) >= 2
    /\ Settled(1) /\ ~tasks[1].out.ok
    /\ Settled(2) /\ tasks[2].out.ok

SameRequest(a, b) == reqs[a].op = reqs[b].op /\ reqs[a].in = reqs[b].in
ReturnedBefore(a, b) == a \in reqs[b].after
IssuedCall(r) == reqs[r].task # 0 /\ Started(reqs[r].task)
Count(x, s) == Cardinality({i \in 1..Len(s) : s[i] = x})
IsPermutation(s, t) == Len(s) = Len(t) /\ \A i \in 1..Len(s) : Count(s[i], s) = Count(s[i], t)

QuotesKeyOrderInsensitive ==
    \A a, b \in 1..Len(reqs) :
        (/\ reqs[a].op = "getQuotes" /\ reqs[b].op = "getQuotes"
         /\ IsPermutation(reqs[a].in.tickers, reqs[b].in.tickers)
         /\ reqs[a].in.fields = reqs[b].in.fields
         /\ ReturnedBefore(a, b) /\ reqs[a].res.ok /\ now <= 300)
            => /\ reqs[b].res.hit /\ reqs[b].task = 0
               /\ \E c \in 1..Len(reqs) : /\ ~reqs[c].res.hit /\ reqs[c].res.ok
                                          /\ reqs[c].res.val = reqs[b].res.val

\* getQuotes(["B","A"]) answered by the upstream, then getQuotes(["A","B"])
\* served from the cache
QuotesKeyOrderInsensitiveWitness ==
    /\ Len(reqs) = 2
    /\ reqs[1].op = "getQuotes" /\ reqs[2].op = "getQuotes"
    /\ reqs[1].in.tickers = <<S_B, S_A>> /\ reqs[2].in.tickers = <<S_A, S_B>>
    /\ ~reqs[1].res.hit /\ reqs[1].res.ok
    /\ reqs[2].res.hit /\ reqs[2].res.val = reqs[1].res.val
    /\ Len(tasks) = 1

\* C6, as claimed: a getQuote call made after a successful call for the same
\* ticker with the same field names in another order, and within the 300 s
\* window, uses the same cache entry and issues no upstream call
QuoteKeyFieldOrderInsensitive ==
    \A a, b \in 1..Len(reqs) :
        (/\ reqs[a].op = "getQuote" /\ reqs[b].op = "getQuote"
         /\ reqs[a].in.ticker = reqs[b].in.ticker
         /\ reqs[a].in.fields # None /\ reqs[b].in.fields # None
         /\ IsPermutation(reqs[a].in.fields[1], reqs[b].in.fields[1])
         /\ ReturnedBefore(a, b) /\ reqs[a].res.ok /\ now <= 300)
            => (reqs[b].key = reqs[a].key /\ reqs[b].res.hit /\ reqs[b].task = 0)

\* the step of a service operation up to its suspension or its return
CallStep == Len(reqs') = Len(reqs) + 1

\* C7: no expired value is returned: a getQuote or getQuotes call made more
\* than 300 s after its cache entry was stored, or a search call made more
\* than 1800 s after, does not return the stored value and issues a new
\* upstream call; within these windows the stored value is returned and no
\* upstream call is issued
NoExpiredValueStep ==
    CallStep =>
        LET rq == reqs'[Len(reqs')]
            window == IF rq.op = "search" THEN 1800 ELSE 300
        IN rq.key \in DOMAIN cache =>
              IF now - cache[rq.key].at > window
              THEN /\ ~rq.res.hit /\ rq.pc = "pending"
                   /\ Len(tasks') = Len(tasks) + 1 /\ rq.task = Len(tasks')
              ELSE /\ rq.res.hit /\ rq.pc = "done" /\ rq.res.val = cache[rq.key].v
                   /\ tasks' = tasks

NoExpiredValue == [][NoExpiredValueStep]_vars

\* a search answered and cached, and the same search made again after the
\* 1800 s have passed: it goes to the upstream
NoExpiredValueWitness ==
    /\ Len(reqs) = 2
    /\ reqs[1].op = "search" /\ SameRequest(1, 2)
    /\ reqs[1].res.ok /\ ReturnedBefore(1, 2)
    /\ reqs[2].pc = "pending" /\ reqs[2].task = 2
    /\ now > 1800

IsHist(r) == reqs[r].op = "getHistoricalData"
ValidText(text) == parseISO(text) # None
Rejected(r, cls) == reqs[r].pc = "done" /\ ~reqs[r].res.ok /\ reqs[r].res.err.cls = cls
\* r handed no call to the client: every chart call is that of another request
NoChartCall(r) ==
    /\ reqs[r].task = 0
    /\ \A t \in 1..Len(tasks) : tasks[t].kind = "chart" =>
          \E q \in 1..Len(reqs) : q # r /\ reqs[q].task = t

\* a is a later day than b
Later(a, b) ==
    \/ a[1] > b[1]
    \/ a[1] = b[1] /\ a[2] > b[2]
    \/ a[1] = b[1] /\ a[2] = b[2] /\ a[3] > b[3]

\* C8: for two valid dates with fromDate after toDate, getHistoricalData
\* rejects with a ValidationError and issues no upstream chart call
InvertedRangeRejected ==
    \A r \in 1..Len(reqs) :
        (/\ IsHist(r) /\ ValidText(reqs[r].in.fromDate) /\ ValidText(reqs[r].in.toDate)
         /\ Later(reqs[r].in.fromDate, reqs[r].in.toDate))
            => Rejected(r, "ValidationError") /\ NoChartCall(r)

\* an inverted range that starts in the past is rejected for being inverted
InvertedRangeRejectedWitness ==
    \E r \in 1..Len(reqs) :
        /\ IsHist(r) /\ ValidText(reqs[r].in.fromDate) /\ ValidText(reqs[r].in.toDate)
        /\ Later(reqs[r].in.fromDate, reqs[r].in.toDate)
        /\ ~Later(reqs[r].in.fromDate, today)
        /\ Rejected(r, "ValidationError")
        /\ reqs[r].res.err.msg = <<"fromDate must be before or equal to toDate.">>

\* toDate is more than five years after fromDate
SpansOverFiveYears(fromDate, toDate) ==
    Later(toDate, <<fromDate[1] + 5, fromDate[2], fromDate[3]>>)

\* C9, as claimed: every range of valid dates of more than 5 years, the ones
\* of under 6 years included, is rejected with a ValidationError before any
\* upstream chart call
LongRangeRejected ==
    \A r \in 1..Len(reqs) :
        (/\ IsHist(r) /\ ValidText(reqs[r].in.fromDate) /\ ValidText(reqs[r].in.toDate)
         /\ SpansOverFiveYears(reqs[r].in.fromDate, reqs[r].in.toDate))
            => Rejected(r, "ValidationError") /\ NoChartCall(r)

\* C10: with a valid range, a failure of the upstream chart call or of the
\* mapping of its records makes getHistoricalData reject with a
\* NotFoundError naming the ticker, never with the upstream error; a
\* ValidationError is never turned into a NotFoundError
UpstreamFailureIsNotFound ==
    \A r \in 1..Len(reqs) : (IsHist(r) /\ reqs[r].pc = "done") =>
        IF reqs[r].task = 0
        THEN Rejected(r, "ValidationError")
        ELSE LET out == tasks[reqs[r].task].out
             IN (~out.ok \/ Falsy(out.body)) =>
                   /\ Rejected(r, "NotFoundError")
                   /\ reqs[r].res.err.about = reqs[r].in.ticker
                   /\ reqs[r].res.err.msg = CouldNotFetch
                   /\ (~out.ok => reqs[r].res.err # out.body)

\* the upstream chart call failed with a network error
UpstreamFailureIsNotFoundWitness ==
    \E r \in 1..Len(reqs) :
        /\ IsHist(r) /\ reqs[r].pc = "done" /\ reqs[r].task # 0
        /\ ~tasks[reqs[r].task].out.ok
        /\ tasks[reqs[r].task].out.body.msg = <<"Network error">>
        /\ Rejected(r, "NotFoundError")

\* the request r has returned or thrown after its upstream call settled
Answered(r) == reqs[r].pc = "done" /\ reqs[r].task # 0
UpstreamOut(r) == tasks[reqs[r].task].out
\* the i-th smallest element of a set of indexes
Nth(idx, j) == CHOOSE i \in idx : Cardinality({k \in idx : k <= i}) = j

AllFivePresent(q) == \A k \in {"date", "close", "high", "low", "volume"} : Has(q, k)

\* C11, as claimed: getHistoricalData returns one point for every upstream
\* record in which date, close, high, low and volume are all present, whatever
\* their values (zero included), none for a record where one is missing, in
\* the upstream order, each point with its five attributes
EveryCompleteBarReturned ==
    \A r \in 1..Len(reqs) :
        (/\ IsHist(r) /\ Answered(r) /\ UpstreamOut(r).ok
         /\ ~Falsy(UpstreamOut(r).body) /\ Has(UpstreamOut(r).body.v, "quotes"))
            => LET bars == UpstreamOut(r).body.v.quotes
                   idx == {i \in 1..Len(bars) : AllFivePresent(bars[i])}
               IN /\ reqs[r].res.ok
                  /\ Len(reqs[r].res.val) = Cardinality(idx)
                  /\ \A j \in 1..Len(reqs[r].res.val) :
                        LET p == reqs[r].res.val[j]
                            q == bars[Nth(idx, j)]
                        IN /\ DOMAIN p = {"date", "close", "high", "low", "volume"}
                           /\ p.date = q.date /\ p.volume = q.volume
                           /\ p.close = RoundCents(q.close)

\* C12: getMultipleQuotes never rejects: whatever the tickers and whichever
\* of their getQuote calls fail, it returns a map whose keys are exactly the
\* tickers whose getQuote succeeded, each with the response of that ticker
MultipleQuotesNeverRejects ==
    /\ multi.pc # "rejected"
    /\ multi.pc = "done" =>
          LET ok == {i \in 1..Len(multi.tickers) : reqs[i].res.ok}
          IN /\ Len(reqs) = Len(multi.tickers)
             /\ \A i \in 1..Len(reqs) : reqs[i].pc = "done" /\ reqs[i].in.ticker = multi.tickers[i]
             /\ DOMAIN multi.results = {multi.tickers[i] : i \in ok}
             /\ \A i \in ok :
                   (\A j \in ok : multi.tickers[j] = multi.tickers[i] => j <= i)
                       => multi.results[multi.tickers[i]] = reqs[i].res.val

\* the getQuote of the first ticker failed, the one of the second succeeded
MultipleQuotesNeverRejectsWitness ==
    /\ multi.pc = "done" /\ multi.tickers = <<S_A, S_B>>
    /\ ~reqs[1].res.ok /\ reqs[2].res.ok
    /\ DOMAIN multi.results = {S_B}
    /\ multi.results[S_B].symbol = S_B

IsOp(r, op) == reqs[r].op = op
NotFoundSignature(e) ==
    InstanceOfError(e) /\ (Includes(e.msg, "No definition") \/ Includes(e.msg, "not found"))
RateLimitSignature(e) == InstanceOfError(e) /\ Includes(e.msg, "rate limit")

\* C13: getQuote classifies every failure into exactly one outcome, the first
\* that applies: an absent or empty upstream result, or an upstream error
\* whose message contains 'No definition' or 'not found', gives a
\* NotFoundError naming the ticker; an upstream error whose message contains
\* 'rate limit' gives a RateLimitError; every other upstream error is
\* rethrown unchanged
QuoteFailureClassified ==
    \A r \in 1..Len(reqs) : (IsOp(r, "getQuote") /\ Answered(r)) =>
        LET out == UpstreamOut(r)
            res == reqs[r].res
        IN IF out.ok
           THEN IF EmptyResult(out.body)
                THEN /\ Rejected(r, "NotFoundError")
                     /\ res.err.msg = TickerNotFound /\ res.err.about = reqs[r].in.ticker
                ELSE res.ok
           ELSE IF NotFoundSignature(out.body)
                THEN /\ Rejected(r, "NotFoundError")
                     /\ res.err.msg = TickerNotFound /\ res.err.about = reqs[r].in.ticker
                ELSE IF RateLimitSignature(out.body)
                THEN Rejected(r, "RateLimitError") /\ res.err.msg = RateLimitMessage
                ELSE ~res.ok /\ res.err = out.body

\* the upstream failed with a rate limit message and getQuote rejected with a
\* RateLimitError
QuoteFailureClassifiedWitness ==
    \E r \in 1..Len(reqs) :
        /\ IsOp(r, "getQuote") /\ Answered(r) /\ ~UpstreamOut(r).ok
        /\ UpstreamOut(r).body.msg = <<"rate limit">> /\ InstanceOfError(UpstreamOut(r).body)
        /\ Rejected(r, "RateLimitError")

\* C14, as claimed: when the upstream quote call of getQuotes returns an
\* empty or absent result (undefined, null or an empty array), getQuotes
\* rejects with a NotFoundError naming the full requested ticker list, and
\* nothing is stored in the cache
EmptyQuotesRejected ==
    \A r \in 1..Len(reqs) :
        (IsOp(r, "getQuotes") /\ Answered(r) /\ UpstreamOut(r).ok /\ EmptyResult(UpstreamOut(r).body))
            => /\ Rejected(r, "NotFoundError")
               /\ reqs[r].res.err.msg = TickersNotFound
               /\ reqs[r].res.err.about = Join(Sort(reqs[r].in.tickers), S_commaSpace)
               /\ reqs[r].key \notin DOMAIN cache

\* the records of an upstream quote answer, as a sequence
RecordsOf(body) == IF IsArray(body) THEN body.v ELSE <<body.v>>
Succeeded(r) == Answered(r) /\ reqs[r].res.ok

RecordOf(r, i) == RecordsOf(UpstreamOut(r).body)[i]

\* C16, as claimed: every QuoteResponse of getQuote or getQuotes has a
\* symbol: the symbol of the upstream record when it has one, otherwise the
\* ticker requested
SymbolDefaultsToTicker ==
    \A r \in 1..Len(reqs) : Succeeded(r) =>
        /\ IsOp(r, "getQuote") =>
              /\ Has(reqs[r].res.val, "symbol")
              /\ reqs[r].res.val.symbol = IF Has(RecordOf(r, 1), "symbol") THEN RecordOf(r, 1).symbol
                                           ELSE reqs[r].in.ticker
        /\ IsOp(r, "getQuotes") =>
              \A i \in 1..Len(reqs[r].res.val) :
                 /\ Has(reqs[r].res.val[i], "symbol")
                 /\ IF Has(RecordOf(r, i), "symbol")
                    THEN reqs[r].res.val[i].symbol = RecordOf(r, i).symbol
                    ELSE Includes(reqs[r].in.tickers, reqs[r].res.val[i].symbol)

\* C16, amended: every QuoteResponse of getQuote or getQuotes has a symbol:
\* the symbol of the upstream record when it has one; otherwise the requested
\* ticker in getQuote, and the literal 'unknown' in getQuotes
SymbolDefaults ==
    \A r \in 1..Len(reqs) : Succeeded(r) =>
        /\ IsOp(r, "getQuote") =>
              /\ Has(reqs[r].res.val, "symbol")
              /\ reqs[r].res.val.symbol = IF Has(RecordOf(r, 1), "symbol") THEN RecordOf(r, 1).symbol
                                           ELSE reqs[r].in.ticker
        /\ IsOp(r, "getQuotes") =>
              \A i \in 1..Len(reqs[r].res.val) :
                 /\ Has(reqs[r].res.val[i], "symbol")
                 /\ reqs[r].res.val[i].symbol = IF Has(RecordOf(r, i), "symbol")
                                                THEN RecordOf(r, i).symbol ELSE S_unknown

\* getQuotes answered with a record that has a symbol and one that has none
SymbolDefaultsWitness ==
    \E r \in 1..Len(reqs) :
        /\ IsOp(r, "getQuotes") /\ Succeeded(r) /\ Len(reqs[r].res.val) = 2
        /\ Has(RecordOf(r, 1), "symbol") /\ reqs[r].res.val[1].symbol = S_B
        /\ ~Has(RecordOf(r, 2), "symbol") /\ reqs[r].res.val[2].symbol = S_unknown

\* the keys of a response, those left with the value null included
KeysOf(resp) == (DOMAIN resp \ {"nulls"}) \cup (IF Has(resp, "nulls") THEN resp.nulls ELSE {})
\* the response attribute k has no value in the upstream record: it is
\* undefined or null there
AbsentUpstream(q, k) ==
    IF k = "name" THEN ~Has(q, "shortName") /\ ~Has(q, "longName") ELSE ~Has(q, k)

\* C17, as claimed: a QuoteResponse of getQuote never contains a key whose
\* upstream value was absent: for every attribute that is undefined or null
\* in the upstream record, the response has no such key
NoAbsentKeys ==
    \A r \in 1..Len(reqs) : (IsOp(r, "getQuote") /\ Succeeded(r)) =>
        \A k \in CopiedKeys \cup {"name"} :
            AbsentUpstream(RecordOf(r, 1), k) => k \notin KeysOf(reqs[r].res.val)

\* the fields list sent upstream with the call of request r
FieldsSent(r) == tasks[reqs[r].task].arg.opt
NoDuplicate(s) == \A i, j \in 1..Len(s) : s[i] = s[j] => i = j
AsksFields(r) ==
    /\ IsOp(r, "getQuote") \/ IsOp(r, "getQuotes")
    /\ reqs[r].task # 0 /\ reqs[r].in.fields # None

\* C18, as claimed: for every fields list given to getQuote or getQuotes, the
\* list sent upstream contains no empty string, no duplicate entry and never
\* 'name'; when the input contains 'name', the list sent upstream contains
\* both 'shortName' and 'longName'
FieldsSentClean ==
    \A r \in 1..Len(reqs) : AsksFields(r) =>
        /\ FieldsSent(r) # None =>
              /\ ~Includes(FieldsSent(r)[1], S_empty)
              /\ ~Includes(FieldsSent(r)[1], S_name)
              /\ NoDuplicate(FieldsSent(r)[1])
        /\ Includes(reqs[r].in.fields[1], S_name) =>
              /\ FieldsSent(r) # None
              /\ Includes(FieldsSent(r)[1], S_shortName)
              /\ Includes(FieldsSent(r)[1], S_longName)

\* C18, amended: for every fields list given to getQuote or getQuotes, the
\* list sent upstream contains no empty string and never 'name', and no
\* entry more often than the input does unless the input lacks it; when the
\* input contains 'name', the list sent upstream contains both 'shortName'
\* and 'longName'; when nothing is left, no list is sent
FieldsSentPrepared ==
    \A r \in 1..Len(reqs) : AsksFields(r) =>
        LET given == reqs[r].in.fields[1]
        IN /\ FieldsSent(r) # None =>
                 /\ Len(FieldsSent(r)[1]) > 0
                 /\ ~Includes(FieldsSent(r)[1], S_empty)
                 /\ ~Includes(FieldsSent(r)[1], S_name)
                 /\ \A i \in 1..Len(FieldsSent(r)[1]) :
                       LET f == FieldsSent(r)[1][i]
                       IN Count(f, FieldsSent(r)[1]) = IF Includes(given, f) THEN Count(f, given) ELSE 1
                 /\ \A i \in 1..Len(given) :
                       (given[i] # S_empty /\ given[i] # S_name) => Includes(FieldsSent(r)[1], given[i])
           /\ Includes(given, S_name) =>
                 /\ FieldsSent(r) # None
                 /\ Includes(FieldsSent(r)[1], S_shortName)
                 /\ Includes(FieldsSent(r)[1], S_longName)
           /\ FieldsSent(r) = None =>
                 \A i \in 1..Len(given) : given[i] = S_empty

\* ['name', '', 'shortName'] given: shortName once and longName sent
FieldsSentPreparedWitness ==
    \E r \in 1..Len(reqs) :
        /\ AsksFields(r) /\ IsOp(r, "getQuote")
        /\ reqs[r].in.fields = Some(<<S_name, S_empty, S_shortName>>)
        /\ FieldsSent(r) = Some(<<S_shortName, S_longName>>)

Qualifies(m) == Has(m, "symbol") /\ Has(m, "exchange") /\ (Has(m, "shortname") \/ Has(m, "longname"))

\* C19: search returns, in the upstream order, exactly the upstream matches
\* that have a string symbol, a string exchange and at least one of
\* shortname and longname; a match lacking one of these never appears; each
\* returned name is the short name when present and otherwise the long name
SearchReturnsQualifying ==
    \A r \in 1..Len(reqs) :
        (/\ IsOp(r, "search") /\ Answered(r) /\ UpstreamOut(r).ok
         /\ Has(UpstreamOut(r).body.v, "quotes"))
            => LET ms == UpstreamOut(r).body.v.quotes
                   idx == {i \in 1..Len(ms) : Qualifies(ms[i])}
               IN /\ reqs[r].res.ok
                  /\ Len(reqs[r].res.val) = Cardinality(idx)
                  /\ \A j \in 1..Len(reqs[r].res.val) :
                        LET s == reqs[r].res.val[j]
                            m == ms[Nth(idx, j)]
                        IN /\ DOMAIN s = {"symbol", "name", "exchange"}
                           /\ s.symbol = m.symbol /\ s.exchange = m.exchange
                           /\ s.name = IF Has(m, "shortname") THEN m.shortname ELSE m.longname

\* a match with a long name only is returned after one with both names, and
\* a match without exchange is left out
SearchReturnsQualifyingWitness ==
    \E r \in 1..Len(reqs) :
        /\ IsOp(r, "search") /\ Answered(r) /\ UpstreamOut(r).ok
        /\ Has(UpstreamOut(r).body.v, "quotes")
        /\ Len(UpstreamOut(r).body.v.quotes) = 2
        /\ ~Has(UpstreamOut(r).body.v.quotes[1], "exchange")
        /\ Len(reqs[r].res.val) = 1
        /\ reqs[r].res.val[1].symbol = S_B /\ reqs[r].res.val[1].name = S_LongOne

\* x and y differ at most in the case of their letters
SameUpToCase(x, y) ==
    /\ Len(x) = Len(y)
    /\ \A i \in 1..Len(x) :
          \/ x[i] = y[i]
          \/ x[i] \in 65..90 /\ y[i] = x[i] + 32
          \/ y[i] \in 65..90 /\ x[i] = y[i] + 32

RECURSIVE TrimStart(_)
TrimStart(x) == IF x # <<>> /\ Head(x) = 32 THEN TrimStart(Tail(x)) ELSE x
RECURSIVE TrimEnd(_)
TrimEnd(x) == IF x # <<>> /\ x[Len(x)] = 32 THEN TrimEnd(SubSeq(x, 1, Len(x) - 1)) ELSE x
Trim(x) == TrimEnd(TrimStart(x))

\* the symbol the request uses: the one in its key and the one it sends upstream
SameKeyAndSymbol(a, b) ==
    /\ reqs[a].key = reqs[b].key
    /\ reqs[a].in.ticker = reqs[b].in.ticker
    /\ \A r \in {a, b} : reqs[r].task # 0 => tasks[reqs[r].task].arg.syms = <<reqs[r].in.ticker>>

\* C20, as claimed: the ticker is trimmed and upper-cased before use: two
\* getQuote calls whose tickers differ only in letter case or in surrounding
\* whitespace use the same cache key and send the same symbol upstream
TickerTrimmedAndUpperCased ==
    \A a, b \in 1..Len(reqs) :
        SameUpToCase(Trim(reqs[a].in.raw), Trim(reqs[b].in.raw)) => SameKeyAndSymbol(a, b)

\* C20, amended: the ticker given to the get_stock_quote tool is upper-cased
\* by the schema and not trimmed, and getQuote uses the ticker it receives
\* as it is: two calls whose tickers differ only in letter case use the same
\* cache key and send the same symbol upstream; two calls whose tickers
\* differ otherwise, be it in surrounding whitespace only, use different keys
TickerUpperCased ==
    \A a, b \in 1..Len(reqs) :
        IF SameUpToCase(reqs[a].in.raw, reqs[b].in.raw)
        THEN SameKeyAndSymbol(a, b)
        ELSE reqs[a].key # reqs[b].key /\ reqs[a].in.ticker # reqs[b].in.ticker

\* 'a' answered by the upstream as A, then 'A' served from the cache entry
\* of 'a'
TickerUpperCasedWitness ==
    /\ Len(reqs) = 2
    /\ reqs[1].in.raw = S_a /\ reqs[2].in.raw = S_A
    /\ reqs[1].res.ok /\ ~reqs[1].res.hit /\ tasks[reqs[1].task].arg.syms = <<S_A>>
    /\ reqs[2].res.hit /\ reqs[2].key = reqs[1].key
    /\ Len(tasks) = 1

\* a getHistoricalData call or its resumption takes place in the step
HistStep(r) ==
    /\ r \in 1..Len(reqs') /\ reqs'[r].op = "getHistoricalData"
    /\ (r > Len(reqs) \/ reqs[r].pc # reqs'[r].pc)

\* C21: historical data is never cached: every getHistoricalData call with a
\* valid range issues an upstream chart call of its own, also when an
\* identical call succeeded just before, and neither the call nor its
\* resumption changes the cache or returns a cached value
HistoryNeverCachedStep ==
    \A r \in 1..Len(reqs') : HistStep(r) =>
        /\ cache' = cache
        /\ ~reqs'[r].res.hit
        /\ (r > Len(reqs) /\ ValidateRange(reqs'[r].in.fromDate, reqs'[r].in.toDate, today) = None) =>
              /\ Len(tasks') = Len(tasks) + 1
              /\ reqs'[r].task = Len(tasks')
              /\ tasks'[Len(tasks')].kind = "chart"
              /\ tasks'[Len(tasks')].st = "waiting"

HistoryNeverCached == [][HistoryNeverCachedStep]_vars

\* getHistoricalData succeeded, the identical call was made after it and
\* was answered by a chart call of its own; the cache is empty
HistoryNeverCachedWitness ==
    /\ Len(reqs) = 2
    /\ IsHist(1) /\ IsHist(2) /\ reqs[1].in = reqs[2].in
    /\ ReturnedBefore(1, 2) /\ reqs[1].res.ok
    /\ reqs[1].task = 1 /\ reqs[2].task = 2
    /\ reqs[2].pc = "done" /\ reqs[2].res.ok
    /\ cache = <<>>

\* C23: enqueue captures the tail and installs its own in one step: for any
\* number of enqueue calls, those made in the same tick included, no two
\* tasks wait on the same tail, each task waits on the tail of the call made
\* just before it, and the last tail installed is the queue
SingleChain ==
    /\ \A a, b \in 1..Len(tasks) : a # b => tasks[a].prev # tasks[b].prev
    /\ \A t \in 1..Len(tasks) : tasks[t].prev = t - 1
    /\ queue = Len(tasks)

\* three calls enqueued from both instances before any of them has started
SingleChainWitness ==
    /\ Len(tasks) = 3
    /\ \A t \in 1..Len(tasks) : tasks[t].st = "waiting"
    /\ tasks[1].inst # tasks[2].inst
    /\ resolved = {0}

\* the operation of request r resumes in the step and fails
FailsInStep(r) == reqs[r].pc = "pending" /\ reqs'[r].pc = "done" /\ ~reqs'[r].res.ok
\* the requests on the key k that have returned or thrown
ReturnedOn(k) == {a \in 1..Len(reqs) : reqs[a].key = k /\ reqs[a].pc = "done"}

\* C24: a cache entry is created only after a successful upstream round
\* trip: when getQuote, getQuotes or search fails, the cache is left as it
\* was, and a call on a key on which every earlier call has failed issues a
\* new upstream call and returns no cached value
FailureNotCachedStep ==
    /\ \A r \in 1..Len(reqs) : FailsInStep(r) => cache' = cache
    /\ CallStep =>
          LET rq == reqs'[Len(reqs')]
          IN (ReturnedOn(rq.key) # {} /\ \A a \in ReturnedOn(rq.key) : ~reqs[a].res.ok) =>
                /\ ~rq.res.hit /\ rq.pc = "pending"
                /\ Len(tasks') = Len(tasks) + 1 /\ rq.task = Len(tasks')
    /\ \A k \in DOMAIN cache' \ DOMAIN cache :
          \E r \in 1..Len(reqs) : /\ reqs[r].key = k /\ reqs[r].pc = "pending"
                                   /\ reqs'[r].pc = "done" /\ reqs'[r].res.ok
                                   /\ cache'[k].v = reqs'[r].res.val

FailureNotCached == [][FailureNotCachedStep]_vars

\* a getQuote call was refused for the rate limit, and the same call made
\* after it has an upstream call of its own
FailureNotCachedWitness ==
    /\ Len(reqs) = 2
    /\ reqs[1].op = "getQuote" /\ SameRequest(1, 2) /\ ReturnedBefore(1, 2)
    /\ Rejected(1, "RateLimitError")
    /\ reqs[2].task = 2 /\ ~reqs[2].res.hit
    /\ cache = <<>>

\* the message of the first rule violated, in the order unparseable
\* fromDate, unparseable toDate, fromDate after today, fromDate after toDate,
\* span over 5 years; None when no rule is violated
FirstViolatedRule(fromDate, toDate, tdy) ==
    IF ~ValidText(fromDate) THEN Some(<<"Invalid fromDate: ", "${fromDate}">>)
    ELSE IF ~ValidText(toDate) THEN Some(<<"Invalid toDate: ", "${toDate}">>)
    ELSE IF Later(fromDate, tdy) THEN Some(<<"fromDate cannot be in the future.">>)
    ELSE IF Later(fromDate, toDate) THEN Some(<<"fromDate must be before or equal to toDate.">>)
    ELSE IF SpansOverFiveYears(fromDate, toDate) THEN Some(<<"Date range cannot exceed 5 years.">>)
    ELSE None

\* C25, as claimed: getHistoricalData applies its checks in a fixed order
\* (unparseable fromDate, unparseable toDate, fromDate after today, fromDate
\* after toDate, span over 5 years) and reports the first rule violated only,
\* each with its own message, without any upstream call
ChecksInOrder ==
    \A r \in 1..Len(reqs) : IsHist(r) =>
        LET first == FirstViolatedRule(reqs[r].in.fromDate, reqs[r].in.toDate, today)
        IN IF first # None
           THEN /\ Rejected(r, "ValidationError")
                /\ reqs[r].res.err.msg = first[1]
                /\ NoChartCall(r)
           ELSE reqs[r].task # 0

\* C26: a getQuote, getQuotes or search call that finds its key live in the
\* cache returns at once without entering the call queue: it completes also
\* while an upstream call is in flight or hung and others wait behind it,
\* and it leaves the queued calls, their order and the tail as they were
HitBypassesQueueStep ==
    CallStep =>
        LET rq == reqs'[Len(reqs')]
        IN (rq.op # "getHistoricalData" /\ CacheLive(cache, rq.key, now)) =>
              /\ rq.pc = "done" /\ rq.res.ok /\ rq.res.hit /\ rq.task = 0
              /\ UNCHANGED <<tasks, queue, resolved, upLog>>

HitBypassesQueue == [][HitBypassesQueueStep]_vars

\* the second request was served from the cache while one upstream call is
\* in flight and another waits behind it
HitBypassesQueueWitness ==
    /\ Len(reqs) = 2 /\ reqs[2].pc = "done" /\ reqs[2].res.hit
    /\ Len(tasks) = 3
    /\ tasks[2].st = "running" /\ tasks[3].st = "waiting"

\* C27: if every upstream call eventually completes, resolving or rejecting,
\* every enqueued call eventually starts and its caller eventually receives
\* an outcome, whatever the interleaving of enqueues and completions
EveryCallSettles ==
    \A t \in 1..MaxTasks :
        (Len(tasks) >= t) ~> (Len(tasks) >= t /\ Started(t) /\ Settled(t))

\* three calls from both instances have all received their outcome, a
\* rejection among them
EveryCallSettlesWitness ==
    /\ Len(tasks) = 3
    /\ \E a, b \in 1..Len(tasks) : tasks[a].inst # tasks[b].inst
    /\ \A t \in 1..Len(tasks) : Settled(t)
    /\ \E t \in 1..Len(tasks) : ~tasks[t].out.ok
    /\ \E t \in 1..Len(tasks) : tasks[t].out.ok

\* the requests that returned the response of an upstream call of their own
\* on key k
Fetched(k) ==
    {r \in 1..Len(reqs) : /\ reqs[r].key = k /\ reqs[r].pc = "done"
                           /\ reqs[r].res.ok /\ ~reqs[r].res.hit}

PendingOn(k) == \E r \in 1..Len(reqs) : reqs[r].key = k /\ reqs[r].pc = "pending"

\* C28: whenever no upstream call is pending for a cache key, the unexpired
\* cached value of the key is the mapped response of the successful upstream
\* call for that key that completed last: identical requests that missed the
\* cache concurrently write it in enqueue order, and an older response never
\* overwrites a newer one
LatestResponseCached ==
    \A k \in DOMAIN cache :
        (CacheLive(cache, k, now) /\ ~PendingOn(k)) =>
            \E r \in Fetched(k) :
                /\ \A q \in Fetched(k) :
                       tasks[reqs[q].task].out.ser <= tasks[reqs[r].task].out.ser
                /\ cache[k].v = reqs[r].res.val

\* two identical requests missed the cache concurrently and were answered
\* differently; the cache holds the answer to the second
LatestResponseCachedWitness ==
    /\ Len(reqs) = 2 /\ reqs[1].key = reqs[2].key
    /\ Fetched(reqs[1].key) = {1, 2}
    /\ ~ReturnedBefore(1, 2)
    /\ reqs[1].res.val # reqs[2].res.val
    /\ CacheLive(cache, reqs[1].key, now)
    /\ cache[reqs[1].key].v = reqs[2].res.val

\* C29, as claimed: getQuotes leaves its input unchanged: after the call the
\* caller's tickers list has the same elements in the same order as before,
\* and the list passed to the upstream quote call is in the caller's order
GetQuotesKeepsInput ==
    \A r \in 1..Len(reqs) :
        reqs[r].op = "getQuotes" =>
            /\ reqs[r].in.held = reqs[r].in.tickers
            /\ reqs[r].task # 0 => tasks[reqs[r].task].arg.syms = reqs[r].in.tickers

SetOf(s) == {s[i] : i \in 1..Len(s)}
FieldSet(fields) == IF fields = None THEN {} ELSE SetOf(fields[1])

\* two requests of one operation for the same ticker, ticker set or query
\* and the same set of fields
EqualRequests(a, b) ==
    /\ reqs[a].op = reqs[b].op
    /\ CASE reqs[a].op = "getQuote" ->
               /\ reqs[a].in.ticker = reqs[b].in.ticker
               /\ FieldSet(reqs[a].in.fields) = FieldSet(reqs[b].in.fields)
         [] reqs[a].op = "getQuotes" ->
               /\ SetOf(reqs[a].in.tickers) = SetOf(reqs[b].in.tickers)
               /\ FieldSet(reqs[a].in.fields) = FieldSet(reqs[b].in.fields)
         [] reqs[a].op = "search" -> reqs[a].in.query = reqs[b].in.query
         [] OTHER -> reqs[a].in = reqs[b].in

\* C30, as claimed: cache keys are injective on requests: two requests that
\* differ in operation, in ticker or ticker set, in query or in the set of
\* requested fields never have the same cache key, and a cached response is
\* only returned to a request equal to the one that produced it
KeysInjective ==
    \A a, b \in 1..Len(reqs) :
        /\ reqs[a].key = reqs[b].key => EqualRequests(a, b)
        /\ (reqs[b].res.hit /\ a < b /\ reqs[a].pc = "done" /\ reqs[a].res.ok
             /\ reqs[b].res.val = reqs[a].res.val) => EqualRequests(a, b)

\* C22, as claimed: POST /mcp is stateless: every request is served by a
\* tool registration and protocol-server connection of its own, so requests
\* handled concurrently or back to back each complete independently and
\* none fails because another request is or was connected
PostsIndependent ==
    \A a \in 1..Len(http.posts) :
        /\ http.posts[a].status # InternalServerError
        /\ http.posts[a].pc # "lost"
        /\ \A b \in 1..Len(http.posts) : a # b => http.posts[a].server # http.posts[b].server

====
